---- MODULE Spec2Model ----
(***************************************************************************)
(* Model of src/overdrawoptimizer.cpp (meshoptimizer): one call of         *)
(* meshopt_optimizeOverdraw, staged as the function stages it:             *)
(*   guard and in-place snapshot, generateHardBoundaries,                  *)
(*   generateSoftBoundaries, calculateSortData, std::sort, output fill.    *)
(*                                                                         *)
(* Buffers are 0-based in the source; the sequences here are 1-based, so   *)
(* position p of a buffer is element p + 1 of its sequence (At, Put).      *)
(*                                                                         *)
(* unsigned int is 32 bits wide.  TLC's integers stop at 2^31 - 1, so a    *)
(* 32-bit value is kept as two 16-bit limbs <<hi, lo>> and the arithmetic  *)
(* of updateCache (+, -, ++, >) is done on limbs, modulo 2^32.             *)
(*                                                                         *)
(* float: the miss-rate comparison of generateSoftBoundaries is done on    *)
(* exact fractions (threshold is a fraction <<num, den>>).  For the miss   *)
(* and triangle counts of the bounds below and the thresholds used, the    *)
(* correctly rounded float division and product order the two sides as     *)
(* the exact fractions do.  The dot products of calculateSortData are      *)
(* drawn from a small ordered set: no claim depends on their values, only  *)
(* on how they compare.  NaN scores are not modelled.                      *)
(***************************************************************************)
EXTENDS Integers, Sequences, FiniteSets, TLC

\* ---------------------------------------------------------------- bounds

\* Largest triangle count of an input mesh.
MaxTris == 2

\* Dot products are drawn from 0..MaxScore.
MaxScore == 1

\* assert(cache_size >= 3)
MinCacheSize == 3

\* Vertices of the input meshes: one more than the smallest cache holds, the
\* smallest count with which a cache of MinCacheSize entries evicts.
NumVerts == MinCacheSize + 1

\* ------------------------------------------------- 32-bit unsigned values

Half == 2 ^ 16

\* The 32-bit value of a small natural number.
U32(n) == <<n \div Half, n % Half>>

\* UINT_MAX
UMax == <<Half - 1, Half - 1>>

\* a + b modulo 2^32
UAdd(a, b) ==
  LET lo == a[2] + b[2]
      hi == a[1] + b[1] + (lo \div Half)
  IN  <<hi % Half, lo % Half>>

\* a - b modulo 2^32
USub(a, b) ==
  LET lo == a[2] - b[2]
      borrow == IF lo < 0 THEN 1 ELSE 0
      hi == a[1] - b[1] - borrow
  IN  <<(hi + Half) % Half, (lo + Half) % Half>>

\* a > b on unsigned values
UGt(a, b) == a[1] > b[1] \/ (a[1] = b[1] /\ a[2] > b[2])

\* ---------------------------------------------------------------- buffers

At(s, p) == s[p + 1]

\* A write at position p; a position outside the buffer leaves it as it is
\* (the position is still recorded by the loop that writes).
Put(s, p, v) == IF p + 1 \in DOMAIN s THEN [s EXCEPT ![p + 1] = v] ELSE s

\* A buffer of n entries, each holding v.
RECURSIVE Filled(_, _)
Filled(n, v) == IF n = 0 THEN <<>> ELSE Append(Filled(n - 1, v), v)

\* std::vector<unsigned int>(n): n zeros
Zeros(n) == Filled(n, 0)

\* ------------------------------------------------------------ updateCache

\* One of the three 'if vertex is not in cache, put it in cache' blocks.
\* c = [cache_timestamps, timestamp, cache_misses].
CacheVertex(v, cache_size, c) ==
  IF UGt(USub(c.timestamp, c.cache_timestamps[v]), cache_size)
  THEN [cache_timestamps |-> [c.cache_timestamps EXCEPT ![v] = c.timestamp],
        timestamp |-> UAdd(c.timestamp, U32(1)),
        cache_misses |-> c.cache_misses + 1]
  ELSE c

\* updateCache(a, b, c, cache_size, cache_timestamps, timestamp): the record
\* holds the updated cache_timestamps and timestamp and the returned
\* cache_misses.
updateCache(a, b, c, cache_size, cache_timestamps, timestamp) ==
  LET c0 == [cache_timestamps |-> cache_timestamps, timestamp |-> timestamp,
             cache_misses |-> 0]
      c1 == CacheVertex(a, cache_size, c0)
      c2 == CacheVertex(b, cache_size, c1)
  IN  CacheVertex(c, cache_size, c2)

\* ------------------------------------------------- generateHardBoundaries

\* HardStep without the 'i == 0' that makes the first cluster start at 0.
HardStepMissesOnly(i, h, u) ==
  IF u.cache_misses = 3
  THEN [cache_timestamps |-> u.cache_timestamps,
        timestamp |-> u.timestamp,
        destination |-> Put(h.destination, h.result, i),
        result |-> h.result + 1,
        writes |-> Append(h.writes, h.result),
        calls |-> Append(h.calls, [tri |-> i, since |-> 0, m |-> u.cache_misses])]
  ELSE [cache_timestamps |-> u.cache_timestamps,
        timestamp |-> u.timestamp,
        destination |-> h.destination,
        result |-> h.result,
        writes |-> h.writes,
        calls |-> Append(h.calls, [tri |-> i, since |-> 0, m |-> u.cache_misses])]

\* The body of the loop of generateHardBoundaries for triangle i, u being
\* what updateCache returned for it.  h holds the locals (cache_timestamps,
\* timestamp, destination, result) and two records of what the loop did:
\* writes, the positions of destination written, in order, and calls, one
\* entry per updateCache call (the triangle, the first triangle processed
\* since the cache was last reset, the misses returned).
HardStep(i, h, u) ==
  IF i = 0 \/ u.cache_misses = 3
  THEN [cache_timestamps |-> u.cache_timestamps,
        timestamp |-> u.timestamp,
        destination |-> Put(h.destination, h.result, i),
        result |-> h.result + 1,
        writes |-> Append(h.writes, h.result),
        calls |-> Append(h.calls, [tri |-> i, since |-> 0, m |-> u.cache_misses])]
  ELSE [cache_timestamps |-> u.cache_timestamps,
        timestamp |-> u.timestamp,
        destination |-> h.destination,
        result |-> h.result,
        writes |-> h.writes,
        calls |-> Append(h.calls, [tri |-> i, since |-> 0, m |-> u.cache_misses])]

RECURSIVE HardLoop(_, _, _, _, _)
HardLoop(i, indices, face_count, cache_size, h) ==
  IF i >= face_count THEN h
  ELSE HardLoop(i + 1, indices, face_count, cache_size,
         HardStep(i, h,
           updateCache(At(indices, i * 3), At(indices, i * 3 + 1), At(indices, i * 3 + 2),
                       cache_size, h.cache_timestamps, h.timestamp)))

\* The return of generateHardBoundaries; asserted is the value of the
\* assertion before it.
HardReturn(h, index_count) ==
  [destination |-> h.destination, result |-> h.result,
   writes |-> h.writes, calls |-> h.calls,
   asserted |-> h.result <= index_count \div 3]

\* generateHardBoundaries(destination, indices, index_count, vertex_count,
\* cache_size)
generateHardBoundaries(destination, indices, index_count, vertex_count, cache_size) ==
  HardReturn(
    HardLoop(0, indices, index_count \div 3, cache_size,
      [cache_timestamps |-> [v \in 0..(vertex_count - 1) |-> U32(0)],
       timestamp |-> UAdd(cache_size, U32(1)),
       destination |-> destination,
       result |-> 0,
       writes |-> <<>>,
       calls |-> <<>>]),
    index_count)

\* ------------------------------------------------- generateSoftBoundaries

\* threshold * (float(cluster_misses) / float(end - start)), as a fraction.
ClusterThreshold(threshold, cluster_misses, faces) ==
  <<threshold[1] * cluster_misses, threshold[2] * faces>>

\* float(running_misses) / float(running_faces) <= cluster_threshold
ReachedTarget(running_misses, running_faces, cluster_threshold) ==
  running_misses * cluster_threshold[2] <= cluster_threshold[1] * running_faces

\* 'reset cache': timestamp += cache_size + 1
ResetCache(timestamp, cache_size) == UAdd(timestamp, UAdd(cache_size, U32(1)))

\* The body of the 'measure cluster ACMR' loop for triangle i of the region
\* that starts at start.  s = [cache_timestamps, timestamp, cluster_misses,
\* calls].
MeasureStep(i, start, s, u) ==
  [cache_timestamps |-> u.cache_timestamps,
   timestamp |-> u.timestamp,
   cluster_misses |-> s.cluster_misses + u.cache_misses,
   calls |-> Append(s.calls, [tri |-> i, since |-> start, m |-> u.cache_misses])]

RECURSIVE MeasureLoop(_, _, _, _, _, _)
MeasureLoop(i, start, end, indices, cache_size, s) ==
  IF i >= end THEN s
  ELSE MeasureLoop(i + 1, start, end, indices, cache_size,
         MeasureStep(i, start, s,
           updateCache(At(indices, i * 3), At(indices, i * 3 + 1), At(indices, i * 3 + 2),
                       cache_size, s.cache_timestamps, s.timestamp)))

\* The body of the second loop for triangle i, which emits a boundary when
\* the running miss rate has reached the target.  w = [cache_timestamps,
\* timestamp, destination, result, running_misses, running_faces, since,
\* writes, calls, emitted]: since is the first triangle processed after the
\* last reset, emitted counts the boundaries this loop wrote.
WalkStep(i, cache_size, cluster_threshold, w, u) ==
  IF ReachedTarget(w.running_misses + u.cache_misses, w.running_faces + 1, cluster_threshold)
  THEN [cache_timestamps |-> u.cache_timestamps,
        timestamp |-> ResetCache(u.timestamp, cache_size),
        destination |-> Put(w.destination, w.result, i + 1),
        result |-> w.result + 1,
        running_misses |-> 0,
        running_faces |-> 0,
        since |-> i + 1,
        writes |-> Append(w.writes, w.result),
        calls |-> Append(w.calls, [tri |-> i, since |-> w.since, m |-> u.cache_misses]),
        emitted |-> w.emitted + 1]
  ELSE [cache_timestamps |-> u.cache_timestamps,
        timestamp |-> u.timestamp,
        destination |-> w.destination,
        result |-> w.result,
        running_misses |-> w.running_misses + u.cache_misses,
        running_faces |-> w.running_faces + 1,
        since |-> w.since,
        writes |-> w.writes,
        calls |-> Append(w.calls, [tri |-> i, since |-> w.since, m |-> u.cache_misses]),
        emitted |-> w.emitted]

RECURSIVE WalkLoop(_, _, _, _, _, _)
WalkLoop(i, end, indices, cache_size, cluster_threshold, w) ==
  IF i >= end THEN w
  ELSE WalkLoop(i + 1, end, indices, cache_size, cluster_threshold,
         WalkStep(i, cache_size, cluster_threshold, w,
           updateCache(At(indices, i * 3), At(indices, i * 3 + 1), At(indices, i * 3 + 2),
                       cache_size, w.cache_timestamps, w.timestamp)))

\* RemoveLastBoundary that keeps every boundary.
KeepLastBoundary(dest, result, start) == result

\* RemoveLastBoundary that removes the last boundary whatever it is.
RemoveAnyBoundary(dest, result, start) == result - 1

\* 'thus we remove the last cluster boundary': the new result.
RemoveLastBoundary(dest, result, start) ==
  IF At(dest, result - 1) /= start THEN result - 1 ELSE result

\* The end of one iteration of the loop over the hard clusters, w being the
\* second loop's locals: the trailing boundary is removed.  g = [...] holds
\* the locals that live across iterations and regions, one entry per
\* iteration done (first: the position of the region's own boundary; last:
\* the boundary most recently emitted; removed: whether it was removed;
\* count: the boundaries the iteration leaves), and started, the
\* conjunction of the assert(start < end) seen.
RegionEnd(start, end, cluster_misses, g, w) ==
  [cache_timestamps |-> w.cache_timestamps,
   timestamp |-> w.timestamp,
   destination |-> w.destination,
   result |-> RemoveLastBoundary(w.destination, w.result, start),
   writes |-> w.writes,
   calls |-> w.calls,
   regions |-> Append(g.regions,
                 [start |-> start, end |-> end,
                  cluster_misses |-> cluster_misses,
                  first |-> g.result,
                  emitted |-> w.emitted,
                  last |-> At(w.destination, w.result - 1),
                  removed |-> RemoveLastBoundary(w.destination, w.result, start) /= w.result,
                  count |-> RemoveLastBoundary(w.destination, w.result, start) - g.result]),
   started |-> g.started /\ start < end]

\* From 'first cluster always starts from the hard cluster boundary' to the
\* end of the iteration, s being the measuring loop's locals.
RegionWalk(start, end, indices, cache_size, threshold, g, s) ==
  RegionEnd(start, end, s.cluster_misses, g,
    WalkLoop(start, end, indices, cache_size,
      ClusterThreshold(threshold, s.cluster_misses, end - start),
      [cache_timestamps |-> s.cache_timestamps,
       timestamp |-> ResetCache(s.timestamp, cache_size),
       destination |-> Put(g.destination, g.result, start),
       result |-> g.result + 1,
       running_misses |-> 0,
       running_faces |-> 0,
       since |-> start,
       writes |-> Append(g.writes, g.result),
       calls |-> s.calls,
       emitted |-> 0]))

\* One iteration over the region [start, end).
Region(start, end, indices, cache_size, threshold, g) ==
  RegionWalk(start, end, indices, cache_size, threshold, g,
    MeasureLoop(start, start, end, indices, cache_size,
      [cache_timestamps |-> g.cache_timestamps,
       timestamp |-> ResetCache(g.timestamp, cache_size),
       cluster_misses |-> 0,
       calls |-> g.calls]))

\* end = (it + 1 < cluster_count) ? clusters[it + 1] : index_count / 3
EndOf(clusters, cluster_count, it, index_count) ==
  IF it + 1 < cluster_count THEN At(clusters, it + 1) ELSE index_count \div 3

RECURSIVE SoftLoop(_, _, _, _, _, _, _, _)
SoftLoop(it, indices, index_count, clusters, cluster_count, cache_size, threshold, g) ==
  IF it >= cluster_count THEN g
  ELSE SoftLoop(it + 1, indices, index_count, clusters, cluster_count, cache_size, threshold,
         Region(At(clusters, it), EndOf(clusters, cluster_count, it, index_count),
                indices, cache_size, threshold, g))

\* The return of generateSoftBoundaries; asserted is the value of the
\* assertions (start < end in every iteration, and the two before the
\* return).
SoftReturn(g, index_count, cluster_count) ==
  [destination |-> g.destination, result |-> g.result,
   writes |-> g.writes, calls |-> g.calls, regions |-> g.regions,
   asserted |-> g.started /\ g.result >= cluster_count /\ g.result <= index_count \div 3]

\* generateSoftBoundaries(destination, indices, index_count, vertex_count,
\* clusters, cluster_count, cache_size, threshold)
generateSoftBoundaries(destination, indices, index_count, vertex_count, clusters, cluster_count, cache_size, threshold) ==
  SoftReturn(
    SoftLoop(0, indices, index_count, clusters, cluster_count, cache_size, threshold,
      [cache_timestamps |-> [v \in 0..(vertex_count - 1) |-> U32(0)],
       timestamp |-> U32(0),
       destination |-> destination,
       result |-> 0,
       writes |-> <<>>,
       calls |-> <<>>,
       regions |-> <<>>,
       started |-> TRUE]),
    index_count, cluster_count)

\* ------------------------------------------- ClusterSortData and std::sort

\* operator< with the comparison turned round.
LessAscending(a, other) == a.dot_product < other.dot_product

\* ClusterSortData::operator<: high product = possible occluder, render early
Less(a, other) == a.dot_product > other.dot_product

\* The outcomes std::sort may leave: the rearrangements of sort_data in
\* which no element is Less than one placed before it (the sort is not
\* stable: equal products may end in any order).
SortOutcomes(data) ==
  LET n == Len(data)
      orders == {[k \in 1..n |-> data[q[k]]] : q \in Permutations(1..n)}
  IN  {sorted \in orders :
         \A k1 \in 1..n : \A k2 \in 1..n : k1 < k2 => ~Less(sorted[k2], sorted[k1])}

\* ------------------------------------------------------- the output fill

\* The caller's memory m = [ibuf, dbuf, indices_copy]: ibuf is the buffer the
\* caller passed as indices, dbuf the one passed as destination when it is
\* another buffer, indices_copy the local vector.  A pointer is the name of
\* the buffer it points into.
DestinationOf(destination_is_indices) ==
  IF destination_is_indices THEN "ibuf" ELSE "dbuf"

\* SnapshotIndices without the copy: indices keeps pointing at the caller's
\* buffer.
NoSnapshot(destination_is_indices, m, index_count) ==
  [mem |-> m, indices |-> "ibuf"]

\* 'support in-place optimization': the memory and the indices pointer after
\* the block.
SnapshotIndices(destination_is_indices, m, index_count) ==
  IF destination_is_indices
  THEN [mem |-> [m EXCEPT !.indices_copy = SubSeq(m.ibuf, 1, index_count)],
        indices |-> "indices_copy"]
  ELSE [mem |-> m, indices |-> "ibuf"]

\* CopyIndex without the offset++.
CopyIndexSameOffset(j, indices, dest, f) ==
  [mem |-> [f.mem EXCEPT ![dest] = Put(@, f.offset, At(f.mem[indices], j))],
   offset |-> f.offset,
   writes |-> Append(f.writes, f.offset),
   reads |-> Append(f.reads, <<indices, j>>),
   asserted |-> f.asserted]

\* destination[offset++] = indices[j]: one element copied.  f = [mem,
\* offset, writes, reads, asserted]: writes are the positions of destination
\* written and reads the <<buffer, position>> pairs read, in order.
CopyIndex(j, indices, dest, f) ==
  [mem |-> [f.mem EXCEPT ![dest] = Put(@, f.offset, At(f.mem[indices], j))],
   offset |-> f.offset + 1,
   writes |-> Append(f.writes, f.offset),
   reads |-> Append(f.reads, <<indices, j>>),
   asserted |-> f.asserted]

\* The copy of triangles [i, end) to destination.
RECURSIVE CopyLoop(_, _, _, _, _)
CopyLoop(i, end, indices, dest, f) ==
  IF i >= end THEN f
  ELSE CopyLoop(i + 1, end, indices, dest,
         CopyIndex(3 * i + 2, indices, dest,
           CopyIndex(3 * i + 1, indices, dest,
             CopyIndex(3 * i, indices, dest, f))))

\* FillCluster with the cluster's end taken to be the end of the mesh.
FillClusterToMeshEnd(cluster, indices, dest, clusters, cluster_count, index_count, f) ==
  CopyLoop(At(clusters, cluster), index_count \div 3, indices, dest, f)

\* One iteration of the 'fill output buffer' loop, for the cluster named by
\* a sort_data entry.
FillCluster(cluster, indices, dest, clusters, cluster_count, index_count, f) ==
  CopyLoop(At(clusters, cluster), EndOf(clusters, cluster_count, cluster, index_count),
    indices, dest,
    [f EXCEPT !.asserted = @ /\ cluster < cluster_count
                             /\ At(clusters, cluster)
                                  < EndOf(clusters, cluster_count, cluster, index_count)])

RECURSIVE FillLoop(_, _, _, _, _, _, _, _)
FillLoop(it, indices, dest, clusters, cluster_count, sorted, index_count, f) ==
  IF it >= cluster_count THEN f
  ELSE FillLoop(it + 1, indices, dest, clusters, cluster_count, sorted, index_count,
         FillCluster(At(sorted, it).cluster, indices, dest, clusters, cluster_count,
                     index_count, f))

\* The return: assert(offset == index_count).
FillReturn(f, index_count) ==
  [f EXCEPT !.asserted = @ /\ f.offset = index_count]

\* The whole fill.
FillOutput(m, indices, dest, clusters, cluster_count, sorted, index_count) ==
  FillReturn(
    FillLoop(0, indices, dest, clusters, cluster_count, sorted, index_count,
      [mem |-> m, offset |-> 0, writes |-> <<>>, reads |-> <<>>, asserted |-> TRUE]),
    index_count)

\* ------------------------------------------------------------- the inputs

\* thresholds, as fractions <<numerator, denominator>>: 0, 1, 3/2 and 3
Thresholds == {<<0, 1>>, <<1, 1>>, <<3, 2>>, <<3, 1>>}

\* cache sizes: the smallest the interface accepts, one that holds every
\* vertex of the meshes, and the largest an unsigned int holds
CacheSizes == {U32(MinCacheSize), U32(16), UMax}

Scores == 0..MaxScore

Max(a, b) == IF a >= b THEN a ELSE b

\* Index buffers of n indices over the vertices 0..NumVerts-1 that name the
\* vertices in order of first use (every index buffer is one of these up to
\* a renaming of its vertices, which no stage can tell apart), each paired
\* with the number of vertices it uses.
RECURSIVE IndexBuffers(_)
IndexBuffers(n) ==
  IF n = 0 THEN {<<<<>>, 0>>}
  ELSE UNION {{<<Append(b[1], v), Max(b[2], v + 1)>> :
                 v \in 0..(IF b[2] < NumVerts THEN b[2] ELSE NumVerts - 1)} :
              b \in IndexBuffers(n - 1)}

\* The meshes of at most MaxTris triangles, degenerate triangles included.
InputIndices == UNION {{b[1] : b \in IndexBuffers(3 * t)} : t \in 0..MaxTris}

\* Those whose triangles all have three distinct vertices.
ProperIndices ==
  {b \in InputIndices :
     \A i \in 0..(Len(b) \div 3 - 1) :
       /\ At(b, 3 * i) /= At(b, 3 * i + 1)
       /\ At(b, 3 * i + 1) /= At(b, 3 * i + 2)
       /\ At(b, 3 * i) /= At(b, 3 * i + 2)}

\* What destination holds before the call, where it is a buffer of its own.
Untouched == 0 - 1

\* EmptyMesh that looks at vertex_count alone.
EmptyMeshVertexOnly(ic, vc) == vc = 0

\* 'guard for empty meshes'
EmptyMesh(ic, vc) == ic = 0 \/ vc = 0

\* ------------------------------------------------------------- the state

VARIABLES
  pc,                      \* where the call is: "call", "hard", "soft",
                           \* "score", "sort", "fill", "done"
  given,                   \* the contents of the indices buffer at the call
  index_count, vertex_count, cache_size, threshold,
  destination_is_indices,  \* destination == indices at the call
  mem,                     \* the caller's buffers and indices_copy
  indices,                 \* the buffer the indices pointer points into
  hard,                    \* hard_clusters, hard_cluster_count (and the record
                           \* of the generateHardBoundaries run)
  soft,                    \* soft_clusters, soft_cluster_count (likewise)
  sort_data,
  fill                     \* offset (and the record of the fill loop)

vars == <<pc, given, index_count, vertex_count, cache_size, threshold,
          destination_is_indices, mem, indices, hard, soft, sort_data, fill>>

HardNotRun == [destination |-> <<>>, result |-> 0, writes |-> <<>>, calls |-> <<>>,
               asserted |-> TRUE]

SoftNotRun == [destination |-> <<>>, result |-> 0, writes |-> <<>>, calls |-> <<>>,
               regions |-> <<>>, asserted |-> TRUE]

NotFilled == [mem |-> <<>>, offset |-> 0, writes |-> <<>>, reads |-> <<>>,
              asserted |-> TRUE]

destination == DestinationOf(destination_is_indices)

\* The state at the call: the arguments satisfy the documented preconditions
\* (index_count % 3 == 0, cache_size >= 3, every index < vertex_count unless
\* the mesh is empty).
InitFrom(meshes) ==
  /\ pc = "call"
  /\ given \in meshes
  /\ index_count = Len(given)
  /\ vertex_count \in {0, NumVerts}
  /\ cache_size \in CacheSizes
  /\ threshold \in Thresholds
  /\ destination_is_indices \in BOOLEAN
  /\ mem = [ibuf |-> given,
            dbuf |-> Filled(Len(given), Untouched),
            indices_copy |-> <<>>]
  /\ indices = "ibuf"
  /\ hard = HardNotRun
  /\ soft = SoftNotRun
  /\ sort_data = <<>>
  /\ fill = NotFilled

\* 'guard for empty meshes': the call returns at once.
ReturnEmpty ==
  /\ pc = "call"
  /\ EmptyMesh(index_count, vertex_count)
  /\ pc' = "done"
  /\ UNCHANGED <<given, index_count, vertex_count, cache_size, threshold,
                 destination_is_indices, mem, indices, hard, soft, sort_data, fill>>

\* 'support in-place optimization'
Snapshot ==
  /\ pc = "call"
  /\ ~EmptyMesh(index_count, vertex_count)
  /\ LET r == SnapshotIndices(destination_is_indices, mem, index_count)
     IN  mem' = r.mem /\ indices' = r.indices
  /\ pc' = "hard"
  /\ UNCHANGED <<given, index_count, vertex_count, cache_size, threshold,
                 destination_is_indices, hard, soft, sort_data, fill>>

\* 'generate hard boundaries from full-triangle cache misses'
HardBoundaries ==
  /\ pc = "hard"
  /\ hard' = generateHardBoundaries(Zeros(index_count \div 3), mem[indices],
               index_count, vertex_count, cache_size)
  /\ pc' = "soft"
  /\ UNCHANGED <<given, index_count, vertex_count, cache_size, threshold,
                 destination_is_indices, mem, indices, soft, sort_data, fill>>

\* 'generate soft boundaries'
SoftBoundaries ==
  /\ pc = "soft"
  /\ soft' = generateSoftBoundaries(Zeros(index_count \div 3 + 1), mem[indices],
               index_count, vertex_count, hard.destination, hard.result,
               cache_size, threshold)
  /\ pc' = "score"
  /\ UNCHANGED <<given, index_count, vertex_count, cache_size, threshold,
                 destination_is_indices, mem, indices, hard, sort_data, fill>>

\* 'fill sort data': calculateSortData gives cluster c the entry
\* (c, dot_product), the dot product being any of Scores.
CalculateSortData ==
  /\ pc = "score"
  /\ \E dot \in [0..(soft.result - 1) -> Scores] :
       sort_data' = [k \in 1..soft.result |->
                       [cluster |-> k - 1, dot_product |-> dot[k - 1]]]
  /\ pc' = "sort"
  /\ UNCHANGED <<given, index_count, vertex_count, cache_size, threshold,
                 destination_is_indices, mem, indices, hard, soft, fill>>

\* std::sort(sort_data.begin(), sort_data.end())
Sort ==
  /\ pc = "sort"
  /\ sort_data' \in SortOutcomes(sort_data)
  /\ pc' = "fill"
  /\ UNCHANGED <<given, index_count, vertex_count, cache_size, threshold,
                 destination_is_indices, mem, indices, hard, soft, fill>>

\* 'fill output buffer', and the return
Fill ==
  /\ pc = "fill"
  /\ fill' = FillOutput(mem, indices, destination, soft.destination, soft.result,
               sort_data, index_count)
  /\ mem' = fill'.mem
  /\ pc' = "done"
  /\ UNCHANGED <<given, index_count, vertex_count, cache_size, threshold,
                 destination_is_indices, indices, hard, soft, sort_data>>

Next ==
  \/ ReturnEmpty
  \/ Snapshot
  \/ HardBoundaries
  \/ SoftBoundaries
  \/ CalculateSortData
  \/ Sort
  \/ Fill

\* The whole call, on the meshes of proper triangles.
Init == InitFrom(ProperIndices)

Spec == Init /\ [][Next]_vars

\* The call up to the return of generateSoftBoundaries, on every mesh.
InitBoundaries == InitFrom(InputIndices)

NextBoundaries ==
  \/ ReturnEmpty
  \/ Snapshot
  \/ HardBoundaries
  \/ SoftBoundaries

SpecBoundaries == InitBoundaries /\ [][NextBoundaries]_vars

\* ------------------------------------------------------- the properties

\* The triangle count of the call.
T == index_count \div 3

\* The call went past the guard for empty meshes.
Ran == index_count > 0 /\ vertex_count > 0

HardDone == Ran /\ pc \in {"soft", "score", "sort", "fill", "done"}

SoftDone == Ran /\ pc \in {"score", "sort", "fill", "done"}

Returned == Ran /\ pc = "done"

\* Triangle i of a buffer, as the triple of its indices.
Triangle(buf, i) == <<At(buf, 3 * i), At(buf, 3 * i + 1), At(buf, 3 * i + 2)>>

\* How many triangles of a buffer of n triangles are the triple t.
Occurrences(buf, n, t) == Cardinality({i \in 0..(n - 1) : Triangle(buf, i) = t})

\* The boundary list a stage returned.
Boundaries(r) == [k \in 1..r.result |-> r.destination[k]]

\* First 0, strictly increasing, below the triangle count n.
Monotonic(list, n) ==
  /\ Len(list) >= 1
  /\ list[1] = 0
  /\ \A k \in 1..(Len(list) - 1) : list[k] < list[k + 1]
  /\ \A k \in 1..Len(list) : list[k] < n

\* The end of cluster c of a boundary list over n triangles.
ClusterEnd(list, c, n) == IF c + 1 < Len(list) THEN At(list, c + 1) ELSE n

\* A transform cache of cache_size entries that starts empty, kept as the
\* vertices missed so far, oldest first: a vertex is in the cache when it is
\* among the last cache_size of them.
InColdCache(v, missed, size) ==
  \E p \in 1..Len(missed) : missed[p] = v /\ ~UGt(U32(Len(missed) - p + 1), size)

\* The vertices missed when the indices [j, to) of a buffer go through that
\* cache, appended to missed.
RECURSIVE ColdMissed(_, _, _, _, _)
ColdMissed(buf, j, to, size, missed) ==
  IF j >= to THEN missed
  ELSE ColdMissed(buf, j + 1, to, size,
         IF InColdCache(At(buf, j), missed, size) THEN missed
         ELSE Append(missed, At(buf, j)))

\* The misses of triangles [from, to) on a cold cache.
ColdMisses(buf, from, to, size) == Len(ColdMissed(buf, 3 * from, 3 * to, size, <<>>))

\* The misses of triangle i when the cache was cold before triangle since.
ColdTriangleMisses(buf, since, i, size) ==
  ColdMisses(buf, since, i + 1, size) - ColdMisses(buf, since, i, size)

\* C1: after a call on a non-empty mesh the output holds index_count
\* entries and the same triangles as the input, each as often as the input
\* holds it, with its three indices in the same order.
C1_TrianglePermutation ==
  Returned =>
    /\ Len(mem[destination]) = index_count
    /\ fill.offset = index_count
    /\ fill.asserted
    /\ \A i \in 0..(T - 1) :
         /\ Occurrences(mem[destination], T, Triangle(given, i))
              = Occurrences(given, T, Triangle(given, i))
         /\ Occurrences(mem[destination], T, Triangle(mem[destination], i))
              = Occurrences(given, T, Triangle(mem[destination], i))

\* C1's case: a call that returned with the triangles in another order.
C1_Witness ==
  /\ cache_size = U32(MinCacheSize)
  /\ Returned
  /\ T = 2
  /\ mem[destination] /= given
  /\ Triangle(mem[destination], 0) = Triangle(given, 1)

\* The buffer a call with a destination apart from indices fills, for the
\* same indices, cache size and threshold and the same sorted sort data.
DisjointOutput ==
  LET hard_run == generateHardBoundaries(Zeros(T), given, index_count, vertex_count,
                                         cache_size)
      soft_run == generateSoftBoundaries(Zeros(T + 1), given, index_count, vertex_count,
                                         hard_run.destination, hard_run.result,
                                         cache_size, threshold)
  IN  FillOutput([ibuf |-> given,
                  dbuf |-> Filled(Len(given), Untouched),
                  indices_copy |-> <<>>],
                 "ibuf", "dbuf", soft_run.destination, soft_run.result, sort_data,
                 index_count).mem.dbuf

\* C2: a call with destination == indices leaves in the buffer what a call
\* with a separate destination writes, and every index it copies is read
\* from the snapshot, which holds the indices as they were at the call.
C2_InPlaceEquivalence ==
  (Returned /\ destination_is_indices) =>
    /\ mem.ibuf = DisjointOutput
    /\ mem.indices_copy = given
    /\ \A k \in 1..Len(fill.reads) : fill.reads[k][1] = "indices_copy"

\* C2's case: an in-place call that moved triangles.
C2_Witness ==
  /\ cache_size = U32(MinCacheSize)
  /\ Returned
  /\ destination_is_indices
  /\ mem.ibuf /= given

\* C3: a call with index_count == 0 or vertex_count == 0 returns with
\* destination (and every other buffer) as it was and no stage run.
C3_EmptyIsNoOp ==
  (index_count = 0 \/ vertex_count = 0) =>
    /\ pc \in {"call", "done"}
    /\ mem = [ibuf |-> given,
              dbuf |-> Filled(Len(given), Untouched),
              indices_copy |-> <<>>]
    /\ hard = HardNotRun
    /\ soft = SoftNotRun
    /\ sort_data = <<>>
    /\ fill = NotFilled

\* C3's case: a returned call on a mesh with indices and no vertices.
C3_Witness ==
  /\ pc = "done"
  /\ vertex_count = 0
  /\ index_count > 0

\* The clusters in the order the fill loop takes them.
Sequence == [k \in 1..Len(sort_data) |-> sort_data[k].cluster]

\* The triangles of the clusters order[k..], cluster by cluster, each
\* cluster's in input order.
RECURSIVE Concatenated(_, _, _, _)
Concatenated(buf, list, order, k) ==
  IF k > Len(order) THEN <<>>
  ELSE SubSeq(buf, 3 * At(list, order[k]) + 1,
              3 * ClusterEnd(list, order[k], Len(buf) \div 3))
       \o Concatenated(buf, list, order, k + 1)

\* C4: the output is the clusters' triangles, cluster after cluster, in an
\* order in which no cluster comes before one of higher score, each
\* cluster's triangles in their input order.
C4_ClusterSequencing ==
  Returned =>
    /\ Len(sort_data) = soft.result
    /\ {Sequence[k] : k \in 1..Len(sort_data)} = 0..(soft.result - 1)
    /\ \A k1 \in 1..Len(sort_data) : \A k2 \in 1..Len(sort_data) :
         k1 < k2 => sort_data[k1].dot_product >= sort_data[k2].dot_product
    /\ mem[destination] = Concatenated(given, Boundaries(soft), Sequence, 1)

\* C4's case: two clusters, the second of higher score, emitted first.
C4_Witness ==
  /\ cache_size = U32(MinCacheSize)
  /\ Returned
  /\ soft.result = 2
  /\ Sequence = <<1, 0>>
  /\ sort_data[1].dot_product > sort_data[2].dot_product
  /\ mem[destination] /= given

\* The final clusters of the hard region with boundary list position r
\* (0-based), as positions in the soft boundary list.
ClustersOfRegion(r) ==
  {c \in 0..(soft.result - 1) :
     /\ At(hard.destination, r) <= At(soft.destination, c)
     /\ At(soft.destination, c) < ClusterEnd(Boundaries(hard), r, T)}

\* C5: every final cluster of a region but the region's last has a
\* cold-cache miss rate of at most threshold times the region's cold-cache
\* miss rate.
C5_MissRateContract ==
  SoftDone =>
    \A r \in 0..(hard.result - 1) : \A c \in ClustersOfRegion(r) :
      (c + 1) \in ClustersOfRegion(r) =>
        ColdMisses(given, At(soft.destination, c), At(soft.destination, c + 1), cache_size)
            * threshold[2] * (ClusterEnd(Boundaries(hard), r, T) - At(hard.destination, r))
          <= threshold[1]
               * ColdMisses(given, At(hard.destination, r),
                            ClusterEnd(Boundaries(hard), r, T), cache_size)
               * (At(soft.destination, c + 1) - At(soft.destination, c))

\* C6: the hard and the soft boundary lists start with 0, are strictly
\* increasing and hold only triangle indices below the triangle count.
C6_MonotonicBoundaries ==
  /\ HardDone => Monotonic(Boundaries(hard), T)
  /\ SoftDone => Monotonic(Boundaries(soft), T)

\* C6's case: the first triangle is degenerate (fewer than 3 misses) and
\* the mesh still splits into two clusters.
C6_Witness ==
  /\ cache_size = U32(MinCacheSize)
  /\ SoftDone
  /\ hard.calls[1].m < 3
  /\ hard.result = 2
  /\ soft.result = 2

\* C7: the soft boundary count is at least the hard boundary count and at
\* most the triangle count, and no assertion of the two generators fails.
C7_ClusterCountBound ==
  /\ HardDone => hard.asserted /\ 1 <= hard.result /\ hard.result <= T
  /\ SoftDone => /\ soft.asserted
                 /\ hard.result <= soft.result
                 /\ 1 <= soft.result
                 /\ soft.result <= T

\* C7's case: every triangle closes a cluster (as many clusters as
\* triangles) in one region.
C7_Witness ==
  /\ cache_size = U32(MinCacheSize)
  /\ SoftDone
  /\ T = 2
  /\ hard.result = 1
  /\ soft.result = 2
  /\ soft.regions[1].emitted = 2

\* C8: in every region the boundary most recently emitted is removed iff
\* it differs from start, it is start iff the second loop emitted none, the
\* region is left with as many boundaries as that loop emitted (one if it
\* emitted none), and the region's own boundary stays.
C8_TrailingMergeRule ==
  SoftDone =>
    \A r \in 1..Len(soft.regions) :
      /\ soft.regions[r].removed <=> soft.regions[r].last /= soft.regions[r].start
      /\ soft.regions[r].last = soft.regions[r].start <=> soft.regions[r].emitted = 0
      /\ soft.regions[r].count
           = (IF soft.regions[r].emitted >= 1 THEN soft.regions[r].emitted ELSE 1)
      /\ At(soft.destination, soft.regions[r].first) = soft.regions[r].start
      /\ Cardinality(ClustersOfRegion(r - 1)) = soft.regions[r].count

\* C8's case: the removed boundary lies strictly inside its region.
C8_Witness ==
  /\ cache_size = U32(MinCacheSize)
  /\ SoftDone
  /\ \E r \in 1..Len(soft.regions) :
       /\ soft.regions[r].removed
       /\ soft.regions[r].last < soft.regions[r].end
       /\ soft.regions[r].emitted = 1

\* C9: every miss count updateCache returns is the one a cache that was
\* cold at the last reset gives: it depends on the triangles since that
\* reset alone, each vertex missing on its first reference.
C9_ResetForcesColdCache ==
  /\ HardDone =>
       \A k \in 1..Len(hard.calls) :
         hard.calls[k].m
           = ColdTriangleMisses(given, hard.calls[k].since, hard.calls[k].tri, cache_size)
  /\ SoftDone =>
       \A k \in 1..Len(soft.calls) :
         soft.calls[k].m
           = ColdTriangleMisses(given, soft.calls[k].since, soft.calls[k].tri, cache_size)

\* The positions a record of writes names.
Written(writes) == {writes[k] : k \in 1..Len(writes)}

\* C10: generateHardBoundaries writes only positions 0..T-1 of its T-entry
\* buffer, generateSoftBoundaries only positions 0..T of its T+1-entry
\* buffer, and the fill writes positions 0..index_count-1 of destination,
\* each once, in order.
C10_WorkingBufferBounds ==
  /\ HardDone => /\ Len(hard.destination) = T
                 /\ Written(hard.writes) \subseteq 0..(T - 1)
  /\ SoftDone => /\ Len(soft.destination) = T + 1
                 /\ Written(soft.writes) \subseteq 0..T
  /\ Returned => fill.writes = [k \in 1..index_count |-> k - 1]

\* C10's case: the boundary equal to the last region's end was written to
\* position T before it was removed, and the call returned.
C10_Witness ==
  /\ cache_size = U32(MinCacheSize)
  /\ Returned
  /\ T = 2
  /\ T \in Written(soft.writes)
  /\ soft.regions[Len(soft.regions)].last = T

====
